---------------------------- MODULE Spec2Model ----------------------------
(***************************************************************************)
(* A model of the HTTP server of this repository: the request parser       *)
(* (src/src/http/parser.rs), the message model and response builder        *)
(* (src/src/http.rs) and the accept loop and router (src/src/main.rs).     *)
(*                                                                         *)
(* Byte streams, lines, tokens, header names and values are TLA+ strings,  *)
(* and the string functions the code calls (read_line, trim,               *)
(* split_ascii_whitespace, split, eq_ignore_ascii_case, str::parse,        *)
(* to_string) are computed character by character.                        *)
(***************************************************************************)
EXTENDS Integers, Sequences, FiniteSets, TLC

(***************************************************************************)
(* Option<T>                                                               *)
(***************************************************************************)
None == [some |-> FALSE]

Some(x) == [some |-> TRUE, val |-> x]

IsSome(o) == o.some

(***************************************************************************)
(* Strings                                                                 *)
(***************************************************************************)
CharAt(s, i) == SubSeq(s, i, i)

\* ASCII whitespace as the standard library sees it in the inputs used here
IsWhitespace(c) == c \in {" ", "\t", "\n", "\r"}

\* str::trim: drop leading and trailing whitespace
RECURSIVE TrimStart(_)
TrimStart(s) ==
    IF Len(s) = 0 THEN s
    ELSE IF IsWhitespace(CharAt(s, 1)) THEN TrimStart(SubSeq(s, 2, Len(s)))
    ELSE s

RECURSIVE TrimEnd(_)
TrimEnd(s) ==
    IF Len(s) = 0 THEN s
    ELSE IF IsWhitespace(CharAt(s, Len(s))) THEN TrimEnd(SubSeq(s, 1, Len(s) - 1))
    ELSE s

Trim(s) == TrimEnd(TrimStart(s))

\* str::split(sep): the pieces between the occurrences of sep, scanning
\* from the left; always at least one piece
RECURSIVE SplitFrom(_, _, _)
SplitFrom(s, sep, i) ==
    IF i + Len(sep) - 1 > Len(s) THEN <<s>>
    ELSE IF SubSeq(s, i, i + Len(sep) - 1) = sep
         THEN <<SubSeq(s, 1, i - 1)>>
              \o SplitFrom(SubSeq(s, i + Len(sep), Len(s)), sep, 1)
         ELSE SplitFrom(s, sep, i + 1)

Split(s, sep) == SplitFrom(s, sep, 1)

\* str::split_ascii_whitespace: the maximal runs of non-whitespace
RECURSIVE SplitWs(_, _)
SplitWs(s, cur) ==
    IF Len(s) = 0 THEN (IF Len(cur) = 0 THEN <<>> ELSE <<cur>>)
    ELSE IF IsWhitespace(CharAt(s, 1))
         THEN (IF Len(cur) = 0 THEN <<>> ELSE <<cur>>)
              \o SplitWs(SubSeq(s, 2, Len(s)), "")
         ELSE SplitWs(SubSeq(s, 2, Len(s)), cur \o CharAt(s, 1))

SplitAsciiWhitespace(s) == SplitWs(s, "")

UpperAlphabet == "ABCDEFGHIJKLMNOPQRSTUVWXYZ"

LowerAlphabet == "abcdefghijklmnopqrstuvwxyz"

\* u8::to_ascii_lowercase, as a table from each upper-case letter
AsciiLowerTable ==
    [c \in {CharAt(UpperAlphabet, i) : i \in 1..26} |->
        CharAt(LowerAlphabet, CHOOSE i \in 1..26 : CharAt(UpperAlphabet, i) = c)]

ToAsciiLowerChar(c) == IF c \in DOMAIN AsciiLowerTable THEN AsciiLowerTable[c] ELSE c

RECURSIVE ToAsciiLower(_)
ToAsciiLower(s) ==
    IF Len(s) = 0 THEN s
    ELSE ToAsciiLowerChar(CharAt(s, 1)) \o ToAsciiLower(SubSeq(s, 2, Len(s)))

\* EqIgnoreAsciiCase as a comparison of the exact bytes
EqExactCase(a, b) == a = b

EqIgnoreAsciiCase(a, b) == ToAsciiLower(a) = ToAsciiLower(b)

Digits == "0123456789"

\* char::to_digit(10), as a table from each decimal digit
DigitTable == [c \in {CharAt(Digits, i) : i \in 1..10} |->
                  (CHOOSE i \in 1..10 : CharAt(Digits, i) = c) - 1]

IsDigit(c) == c \in DOMAIN DigitTable

DigitValue(c) == DigitTable[c]

RECURSIVE DigitsValue(_, _)
DigitsValue(s, acc) ==
    IF Len(s) = 0 THEN acc
    ELSE DigitsValue(SubSeq(s, 2, Len(s)), 10 * acc + DigitValue(CharAt(s, 1)))

\* str::parse::<usize>: an optional '+', then one or more decimal digits;
\* None stands for the Err of every other input
ParseUsize(s) ==
    LET t == IF Len(s) > 0 /\ CharAt(s, 1) = "+" THEN SubSeq(s, 2, Len(s)) ELSE s
    IN  IF Len(t) > 0 /\ \A i \in 1..Len(t) : IsDigit(CharAt(t, i))
        THEN Some(DigitsValue(t, 0))
        ELSE None

\* usize::to_string
RECURSIVE UsizeToString(_)
UsizeToString(n) ==
    IF n < 10 THEN CharAt(Digits, n + 1)
    ELSE UsizeToString(n \div 10) \o CharAt(Digits, (n % 10) + 1)

\* [String]::join(sep)
RECURSIVE Join(_, _)
Join(parts, sep) ==
    IF Len(parts) = 0 THEN ""
    ELSE IF Len(parts) = 1 THEN parts[1]
    ELSE parts[1] \o sep \o Join(Tail(parts), sep)

StartsWith(s, prefix) ==
    Len(s) >= Len(prefix) /\ SubSeq(s, 1, Len(prefix)) = prefix

(***************************************************************************)
(* Result<T, E>                                                            *)
(***************************************************************************)
Ok(v) == [ok |-> TRUE, val |-> v]

Err(e) == [ok |-> FALSE, err |-> e]

(***************************************************************************)
(* Message model (src/src/http.rs)                                         *)
(***************************************************************************)
\* enum HttpMethod, in declaration order
HttpMethodVariants ==
    <<"GET", "POST", "PUT", "DELETE", "OPTIONS", "HEAD", "CONNECT", "PATCH", "TRACE">>

HttpMethod(v) == [enum |-> "HttpMethod", variant |-> v]

HttpMethods == {HttpMethod(HttpMethodVariants[i]) : i \in 1..Len(HttpMethodVariants)}

\* enum HttpVersion
HttpVersionVariants == <<"V10", "V11", "V20">>

HttpVersion(v) == [enum |-> "HttpVersion", variant |-> v]

HttpVersions == {HttpVersion(HttpVersionVariants[i]) : i \in 1..Len(HttpVersionVariants)}

\* enum HttpStatus
HttpStatusVariants ==
    <<"OK", "Created", "BadRequest", "Unauthorized", "Forbidden", "NotFound",
      "MethodNotAllowed", "InternalError">>

HttpStatus(v) == [enum |-> "HttpStatus", variant |-> v]

HttpStatuses == {HttpStatus(HttpStatusVariants[i]) : i \in 1..Len(HttpStatusVariants)}

\* enum MimeType
MimeTypeVariants == <<"PlainText", "JSON", "HTML", "OctetStream">>

MimeType(v) == [enum |-> "MimeType", variant |-> v]

MimeTypes == {MimeType(MimeTypeVariants[i]) : i \in 1..Len(MimeTypeVariants)}

\* enum HttpEncoding; derive(Ord) orders the variants as they are declared
HttpEncodingVariants ==
    <<"Gzip", "Deflate", "Brotli", "Compress", "Exi", "Identity", "Zstd", "Unsupported">>

HttpEncoding(v) == [enum |-> "HttpEncoding", variant |-> v]

HttpEncodings == {HttpEncoding(HttpEncodingVariants[i]) : i \in 1..Len(HttpEncodingVariants)}

HttpEncodingOrd(e) ==
    CHOOSE i \in 1..Len(HttpEncodingVariants) : HttpEncodingVariants[i] = e.variant

\* enum ParseError
UnknownMethod(token) == [kind |-> "UnknownMethod", token |-> token]

UnhandledVersion(token) == [kind |-> "UnhandledVersion", token |-> token]

MissingMethod == [kind |-> "MissingMethod"]

MissingVersion == [kind |-> "MissingVersion"]

MissingPath == [kind |-> "MissingPath"]

MalformedRequest == [kind |-> "MalformedRequest"]

Unreachable == [kind |-> "Unreachable"]

\* struct Unparsed (parser.rs)
Unparsed == [kind |-> "Unparsed"]

\* enum HttpError
NotFound(path) == [kind |-> "NotFound", path |-> path]

MethodNotAllowed(methods) == [kind |-> "MethodNotAllowed", methods |-> methods]

BadRequest(e) == [kind |-> "BadRequest", cause |-> e]

InternalError == [kind |-> "InternalError"]

Unauthorized == [kind |-> "Unauthorized"]

Forbidden == [kind |-> "Forbidden"]

\* HttpMethodFromStr matching the tokens without regard to letter case
HttpMethodFromStrAnyCase(input) ==
    IF \E i \in 1..Len(HttpMethodVariants) :
          ToAsciiLower(HttpMethodVariants[i]) = ToAsciiLower(input)
    THEN Ok(HttpMethod(HttpMethodVariants[
            CHOOSE i \in 1..Len(HttpMethodVariants) :
                ToAsciiLower(HttpMethodVariants[i]) = ToAsciiLower(input)]))
    ELSE Err(UnknownMethod(input))

\* HttpMethod::from_str
HttpMethodFromStr(input) ==
    CASE input = "GET" -> Ok(HttpMethod("GET"))
      [] input = "POST" -> Ok(HttpMethod("POST"))
      [] input = "PUT" -> Ok(HttpMethod("PUT"))
      [] input = "DELETE" -> Ok(HttpMethod("DELETE"))
      [] input = "OPTIONS" -> Ok(HttpMethod("OPTIONS"))
      [] input = "HEAD" -> Ok(HttpMethod("HEAD"))
      [] input = "CONNECT" -> Ok(HttpMethod("CONNECT"))
      [] input = "PATCH" -> Ok(HttpMethod("PATCH"))
      [] input = "TRACE" -> Ok(HttpMethod("TRACE"))
      [] OTHER -> Err(UnknownMethod(input))

\* HttpVersion::from_str
HttpVersionFromStr(input) ==
    CASE input = "HTTP/1.0" -> Ok(HttpVersion("V10"))
      [] input = "HTTP/1.1" -> Ok(HttpVersion("V11"))
      [] input = "HTTP/2.0" -> Ok(HttpVersion("V20"))
      [] OTHER -> Err(UnhandledVersion(input))

\* impl Display for HttpStatus
HttpStatusCode(status) ==
    CASE status.variant = "OK" -> 200
      [] status.variant = "MethodNotAllowed" -> 405
      [] status.variant = "NotFound" -> 404
      [] status.variant = "BadRequest" -> 400
      [] status.variant = "InternalError" -> 500
      [] status.variant = "Created" -> 201
      [] status.variant = "Unauthorized" -> 401
      [] status.variant = "Forbidden" -> 403

HttpStatusDescription(status) ==
    CASE status.variant = "OK" -> "OK"
      [] status.variant = "MethodNotAllowed" -> "Method Not Allowed"
      [] status.variant = "NotFound" -> "Not Found"
      [] status.variant = "BadRequest" -> "Bad Request"
      [] status.variant = "InternalError" -> "Internal Server Error"
      [] status.variant = "Created" -> "Created"
      [] status.variant = "Unauthorized" -> "Unauthorized"
      [] status.variant = "Forbidden" -> "Forbidden"

HttpStatusToString(status) ==
    UsizeToString(HttpStatusCode(status)) \o " " \o HttpStatusDescription(status)

\* HttpVersionToString writing HTTP/2 for V20
HttpVersionToStringShort(version) ==
    CASE version.variant = "V10" -> "HTTP/1.0"
      [] version.variant = "V11" -> "HTTP/1.1"
      [] version.variant = "V20" -> "HTTP/2"

\* impl Display for HttpVersion
HttpVersionToString(version) ==
    CASE version.variant = "V10" -> "HTTP/1.0"
      [] version.variant = "V11" -> "HTTP/1.1"
      [] version.variant = "V20" -> "HTTP/2.0"

\* impl Display for HttpMethod: write!(f, "{self:?}"), and the derived Debug
\* of a field-less variant writes the variant's identifier
HttpMethodToString(method) == method.variant

\* impl Display for MimeType
MimeTypeToString(mime_type) ==
    CASE mime_type.variant = "PlainText" -> "text/plain"
      [] mime_type.variant = "JSON" -> "application/json"
      [] mime_type.variant = "HTML" -> "text/html"
      [] mime_type.variant = "OctetStream" -> "application/octet-stream"

\* impl From<&str> for HttpEncoding
HttpEncodingFrom(value) ==
    CASE value = "br" -> HttpEncoding("Brotli")
      [] value = "gzip" -> HttpEncoding("Gzip")
      [] value = "deflate" -> HttpEncoding("Deflate")
      [] value = "compress" -> HttpEncoding("Compress")
      [] value = "exi" -> HttpEncoding("Exi")
      [] value = "zstd" -> HttpEncoding("Zstd")
      [] value = "identity" -> HttpEncoding("Identity")
      [] OTHER -> HttpEncoding("Unsupported")

\* impl Display for HttpEncoding
HttpEncodingToString(encoding) ==
    CASE encoding.variant = "Brotli" -> "br"
      [] encoding.variant = "Compress" -> "compress"
      [] encoding.variant = "Deflate" -> "deflate"
      [] encoding.variant = "Exi" -> "exi"
      [] encoding.variant = "Gzip" -> "gzip"
      [] encoding.variant = "Identity" -> "identity"
      [] encoding.variant = "Zstd" -> "zstd"
      [] encoding.variant = "Unsupported" -> ""

\* struct HttpHeader
HttpHeader(name, value) == [name |-> name, value |-> value]

\* struct HttpHeaderCollection: a HashMap from the exact name to the header
HeadersNew == [name \in {} |-> HttpHeader("", "")]

\* AddHeader keeping the entry a name already has (entry().or_insert)
AddHeaderKeepFirst(headers, key, value) ==
    [name \in DOMAIN headers \cup {key} |->
        IF name \in DOMAIN headers THEN headers[name] ELSE HttpHeader(key, value)]

\* HttpHeaderCollection::add_header: HashMap::insert replaces the entry
AddHeader(headers, key, value) ==
    [name \in DOMAIN headers \cup {key} |->
        IF name = key THEN HttpHeader(key, value) ELSE headers[name]]

\* HttpHeaderCollection::from_vector: insert each header in turn
RECURSIVE FromVectorInto(_, _)
FromVectorInto(headers, input) ==
    IF Len(input) = 0 THEN headers
    ELSE FromVectorInto(AddHeader(headers, input[1].name, input[1].value), Tail(input))

FromVector(input) == FromVectorInto(HeadersNew, input)

\* HttpHeaderCollection::get_value
GetValue(headers, key) ==
    IF key \in DOMAIN headers THEN Some(headers[key].value) ELSE None

\* HttpResponse::new
HttpResponseNew(version, status) ==
    [version |-> version, status |-> status, headers |-> HeadersNew, body |-> ""]

\* HttpResponse::with_headers
HttpResponseWithHeaders(version, status, headers) ==
    [version |-> version, status |-> status, headers |-> FromVector(headers), body |-> ""]

\* HttpResponseBuilder::new
BuilderNew == [version |-> None, status |-> None, headers |-> HeadersNew, body |-> None]

\* HttpResponseBuilder::with_status
BuilderWithStatus(self, status) == [self EXCEPT !.status = Some(status)]

\* BuilderWithBody without the test for HttpEncoding::Unsupported
BuilderWithBodyAnyEncoding(self, body, mime_type, encoding) ==
    LET h1 == AddHeader(self.headers, "Content-Type", MimeTypeToString(mime_type))
        h2 == AddHeader(h1, "Content-Length", UsizeToString(Len(body)))
        h3 == IF IsSome(encoding)
              THEN AddHeader(h2, "Content-Encoding", HttpEncodingToString(encoding.val))
              ELSE h2
    IN  [self EXCEPT !.headers = h3, !.body = Some(body)]

\* HttpResponseBuilder::with_body; encoding is an Option<HttpEncoding>
BuilderWithBody(self, body, mime_type, encoding) ==
    LET h1 == AddHeader(self.headers, "Content-Type", MimeTypeToString(mime_type))
        h2 == AddHeader(h1, "Content-Length", UsizeToString(Len(body)))
        h3 == IF IsSome(encoding) /\ encoding.val # HttpEncoding("Unsupported")
              THEN AddHeader(h2, "Content-Encoding", HttpEncodingToString(encoding.val))
              ELSE h2
    IN  [self EXCEPT !.headers = h3, !.body = Some(body)]

\* HttpResponseBuilder::add_header
BuilderAddHeader(self, name, value) ==
    [self EXCEPT !.headers = AddHeader(self.headers, name, value)]

\* Option::unwrap_or
UnwrapOr(o, default) == IF IsSome(o) THEN o.val ELSE default

\* HttpResponseBuilder::to_response
BuilderToResponse(self) ==
    [version |-> UnwrapOr(self.version, HttpVersion("V11")),
     status |-> UnwrapOr(self.status, HttpStatus("OK")),
     headers |-> self.headers,
     body |-> UnwrapOr(self.body, "")]

\* HttpErrorToResponse with Forbidden built like Unauthorized
HttpErrorToResponseForbiddenAsUnauthorized(self) ==
    CASE self.kind = "NotFound" ->
            HttpResponseNew(HttpVersion("V11"), HttpStatus("NotFound"))
      [] self.kind = "MethodNotAllowed" ->
            LET allowed_methods ==
                    Join([i \in 1..Len(self.methods) |-> HttpMethodToString(self.methods[i])], ",")
            IN  HttpResponseWithHeaders(HttpVersion("V11"), HttpStatus("MethodNotAllowed"),
                                        <<HttpHeader("Allowed", allowed_methods)>>)
      [] self.kind = "BadRequest" ->
            HttpResponseNew(HttpVersion("V11"), HttpStatus("BadRequest"))
      [] self.kind = "InternalError" ->
            BuilderToResponse(BuilderWithStatus(BuilderNew, HttpStatus("InternalError")))
      [] self.kind \in {"Unauthorized", "Forbidden"} ->
            BuilderToResponse(
                BuilderAddHeader(BuilderWithStatus(BuilderNew, HttpStatus("Unauthorized")),
                                 "WWW-Authenticate", "Basic"))

\* HttpError::to_response
HttpErrorToResponse(self) ==
    CASE self.kind = "NotFound" ->
            HttpResponseNew(HttpVersion("V11"), HttpStatus("NotFound"))
      [] self.kind = "MethodNotAllowed" ->
            LET allowed_methods ==
                    Join([i \in 1..Len(self.methods) |-> HttpMethodToString(self.methods[i])], ",")
            IN  HttpResponseWithHeaders(HttpVersion("V11"), HttpStatus("MethodNotAllowed"),
                                        <<HttpHeader("Allowed", allowed_methods)>>)
      [] self.kind = "BadRequest" ->
            HttpResponseNew(HttpVersion("V11"), HttpStatus("BadRequest"))
      [] self.kind = "InternalError" ->
            BuilderToResponse(BuilderWithStatus(BuilderNew, HttpStatus("InternalError")))
      [] self.kind = "Unauthorized" ->
            BuilderToResponse(
                BuilderAddHeader(BuilderWithStatus(BuilderNew, HttpStatus("Unauthorized")),
                                 "WWW-Authenticate", "Basic"))
      [] self.kind = "Forbidden" ->
            BuilderToResponse(BuilderWithStatus(BuilderNew, HttpStatus("Forbidden")))

\* HttpErrorFromParseError reporting a server fault
HttpErrorFromParseErrorInternal(value) == InternalError

\* impl From<ParseError> for HttpError
HttpErrorFromParseError(value) == BadRequest(value)

\* Display for HttpHeader
HttpHeaderToString(self) == self.name \o ": " \o self.value \o "\r\n"

\* the orders in which HashMap::values() can yield the headers of a collection
ValuesOrders(self) ==
    LET names == DOMAIN self
        n == Cardinality(names)
    IN  {order \in [1..n -> names] : \A i, j \in 1..n : order[i] = order[j] => i = j}

\* Display for HttpHeaderCollection, values() yielding the headers in order
RECURSIVE HeadersToStringFrom(_, _, _)
HeadersToStringFrom(self, order, i) ==
    IF i > Len(order) THEN ""
    ELSE HttpHeaderToString(self[order[i]]) \o HeadersToStringFrom(self, order, i + 1)

HeadersToString(self, order) == HeadersToStringFrom(self, order, 1)

\* HttpResponseToString with "{} {}\r\n{}{}" as the format string
HttpResponseToStringNoBlankLine(self, order) ==
    HttpVersionToString(self.version) \o " " \o HttpStatusToString(self.status) \o "\r\n"
    \o HeadersToString(self.headers, order) \o self.body

\* Display for HttpResponse: "{} {}\r\n{}\r\n{}"
HttpResponseToString(self, order) ==
    HttpVersionToString(self.version) \o " " \o HttpStatusToString(self.status) \o "\r\n"
    \o HeadersToString(self.headers, order) \o "\r\n" \o self.body

(***************************************************************************)
(* Parser (src/src/http/parser.rs)                                         *)
(***************************************************************************)
\* enum ParserState
ParserStates == {"Start", "Headers", "Body", "Done"}

\* Parser::new
ParserNew ==
    [state |-> "Start",
     method |-> None,
     path |-> None,
     version |-> None,
     headers |-> HeadersNew,
     body |-> None,
     content_length |-> None,
     content_encoding |-> {}]

\* BTreeSetFirst taking the other end of the set (next_back)
BTreeSetLast(set) ==
    IF set = {} THEN None
    ELSE Some(CHOOSE e \in set : \A f \in set : HttpEncodingOrd(e) >= HttpEncodingOrd(f))

\* BTreeSet::iter().next(): the least element in Ord order, if any
BTreeSetFirst(set) ==
    IF set = {} THEN None
    ELSE Some(CHOOSE e \in set : \A f \in set : HttpEncodingOrd(e) <= HttpEncodingOrd(f))

\* GetRequest without the check of the state: a request built from defaults
GetRequestUnchecked(self) ==
    Ok([method |-> UnwrapOr(self.method, HttpMethod("GET")),
        path |-> UnwrapOr(self.path, "/"),
        version |-> UnwrapOr(self.version, HttpVersion("V11")),
        headers |-> self.headers,
        encoding |-> BTreeSetFirst(self.content_encoding),
        body |-> self.body])

\* Parser::get_request
GetRequest(self) ==
    IF self.state # "Done" THEN Err(Unparsed)
    ELSE Ok([method |-> self.method.val,
             path |-> self.path.val,
             version |-> self.version.val,
             headers |-> self.headers,
             encoding |-> BTreeSetFirst(self.content_encoding),
             body |-> self.body])

\* BufRead::read_line on the unread bytes: the bytes up to and including
\* the first line feed, or all of them when there is none
RECURSIVE LineEnd(_, _)
LineEnd(buf, i) ==
    IF i > Len(buf) THEN Len(buf)
    ELSE IF CharAt(buf, i) = "\n" THEN i
    ELSE LineEnd(buf, i + 1)

ReadLine(buf) ==
    LET n == LineEnd(buf, 1)
    IN  [line |-> SubSeq(buf, 1, n), rest |-> SubSeq(buf, n + 1, Len(buf))]

\* read_line returns once the unread bytes hold a line feed or the stream
\* has ended; until then it blocks
LineReady(open, buf) ==
    ~open \/ (Len(buf) > 0 /\ CharAt(buf, LineEnd(buf, 1)) = "\n")

\* ExactReady for a read that never waits for the client
ExactReadyAtOnce(open, buf, length) == TRUE

\* read_exact returns once length bytes are there or the stream has ended;
\* until then it blocks
ExactReady(open, buf, length) == ~open \/ Len(buf) >= length

\* ReadExact as Read::read would do it: a short read is not an error
ReadExactShort(buf, length) ==
    IF Len(buf) < length THEN [result |-> Ok(buf), rest |-> ""]
    ELSE [result |-> Ok(SubSeq(buf, 1, length)), rest |-> SubSeq(buf, length + 1, Len(buf))]

\* Read::read_exact of length bytes: fails at end of stream before that many
ReadExact(buf, length) ==
    IF Len(buf) < length THEN [result |-> Err("UnexpectedEof"), rest |-> ""]
    ELSE [result |-> Ok(SubSeq(buf, 1, length)), rest |-> SubSeq(buf, length + 1, Len(buf))]

\* ParseStartLine taking HTTP/1.1 when the line has no version token
ParseStartLineDefaultVersion(self, line) ==
    LET parts == SplitAsciiWhitespace(line)
    IN  IF Len(parts) < 1 THEN [self |-> self, result |-> Err(MissingMethod)]
        ELSE
        LET method == HttpMethodFromStr(parts[1])
        IN  IF ~method.ok THEN [self |-> self, result |-> Err(method.err)]
            ELSE
            LET s1 == [self EXCEPT !.method = Some(method.val)]
            IN  IF Len(parts) < 2 THEN [self |-> s1, result |-> Err(MissingPath)]
                ELSE
                LET s2 == [s1 EXCEPT !.path = Some(parts[2])]
                    version == IF Len(parts) < 3 THEN Ok(HttpVersion("V11"))
                               ELSE HttpVersionFromStr(parts[3])
                IN  IF ~version.ok THEN [self |-> s2, result |-> Err(version.err)]
                    ELSE [self |-> [s2 EXCEPT !.version = Some(version.val),
                                              !.state = "Headers"],
                          result |-> Ok("()")]

\* Parser::parse_start_line; self is left as the failing statement found it
ParseStartLine(self, line) ==
    LET parts == SplitAsciiWhitespace(line)
    IN  IF Len(parts) < 1 THEN [self |-> self, result |-> Err(MissingMethod)]
        ELSE
        LET method == HttpMethodFromStr(parts[1])
        IN  IF ~method.ok THEN [self |-> self, result |-> Err(method.err)]
            ELSE
            LET s1 == [self EXCEPT !.method = Some(method.val)]
            IN  IF Len(parts) < 2 THEN [self |-> s1, result |-> Err(MissingPath)]
                ELSE
                LET s2 == [s1 EXCEPT !.path = Some(parts[2])]
                IN  IF Len(parts) < 3 THEN [self |-> s2, result |-> Err(MissingVersion)]
                    ELSE
                    LET version == HttpVersionFromStr(parts[3])
                    IN  IF ~version.ok THEN [self |-> s2, result |-> Err(version.err)]
                        ELSE [self |-> [s2 EXCEPT !.version = Some(version.val),
                                                  !.state = "Headers"],
                              result |-> Ok("()")]

\* the for loop of parse_header over value.split(",")
AcceptedEncodings(value) ==
    LET tokens == Split(value, ",")
    IN  {HttpEncodingFrom(Trim(tokens[i])) : i \in 1..Len(tokens)}

\* ParseHeader with the blank line always leading to Body
ParseHeaderBlankToBody(self, line) ==
    IF Len(Trim(line)) = 0
    THEN [self |-> [self EXCEPT !.state = "Body"], result |-> Ok("()")]
    ELSE
    LET parts == Split(line, ": ")
    IN  IF Len(parts) < 2 THEN [self |-> self, result |-> Err(MalformedRequest)]
        ELSE
        LET key == Trim(parts[1])
            value == Trim(parts[2])
            length == ParseUsize(value)
        IN  IF EqIgnoreAsciiCase(key, "Content-Length") /\ ~IsSome(length)
            THEN [self |-> self, result |-> Err(MalformedRequest)]
            ELSE
            LET s1 == IF EqIgnoreAsciiCase(key, "Content-Length")
                      THEN [self EXCEPT !.content_length = length]
                      ELSE self
                s2 == IF EqIgnoreAsciiCase(key, "Accept-Encoding")
                      THEN [s1 EXCEPT !.content_encoding = @ \cup AcceptedEncodings(value)]
                      ELSE s1
            IN  [self |-> [s2 EXCEPT !.headers = AddHeader(@, key, value)],
                 result |-> Ok("()")]

\* Parser::parse_header
ParseHeader(self, line) ==
    IF Len(Trim(line)) = 0
    THEN [self |-> [self EXCEPT !.state = IF IsSome(self.content_length)
                                           THEN "Body" ELSE "Done"],
          result |-> Ok("()")]
    ELSE
    LET parts == Split(line, ": ")
    IN  IF Len(parts) < 2 THEN [self |-> self, result |-> Err(MalformedRequest)]
        ELSE
        LET key == Trim(parts[1])
            value == Trim(parts[2])
            length == ParseUsize(value)
        IN  IF EqIgnoreAsciiCase(key, "Content-Length") /\ ~IsSome(length)
            THEN [self |-> self, result |-> Err(MalformedRequest)]
            ELSE
            LET s1 == IF EqIgnoreAsciiCase(key, "Content-Length")
                      THEN [self EXCEPT !.content_length = length]
                      ELSE self
                s2 == IF EqIgnoreAsciiCase(key, "Accept-Encoding")
                      THEN [s1 EXCEPT !.content_encoding = @ \cup AcceptedEncodings(value)]
                      ELSE s1
            IN  [self |-> [s2 EXCEPT !.headers = AddHeader(@, key, value)],
                 result |-> Ok("()")]

\* ParseBody reading to the end of the stream (read_to_end)
ParseBodyToEnd(self, buf) ==
    IF IsSome(self.content_length)
    THEN IF Len(buf) < self.content_length.val
         THEN [self |-> self, result |-> Err(MalformedRequest), rest |-> ""]
         ELSE [self |-> [self EXCEPT !.body = Some(buf), !.state = "Done"],
               result |-> Ok("()"), rest |-> ""]
    ELSE [self |-> [self EXCEPT !.state = "Done"], result |-> Ok("()"), rest |-> buf]

\* ParseBody without `self.state = ParserState::Done`
ParseBodyStateKept(self, buf) ==
    IF IsSome(self.content_length)
    THEN LET read == ReadExact(buf, self.content_length.val)
         IN  IF ~read.result.ok
             THEN [self |-> self, result |-> Err(MalformedRequest), rest |-> read.rest]
             ELSE [self |-> [self EXCEPT !.body = Some(read.result.val)],
                   result |-> Ok("()"), rest |-> read.rest]
    ELSE [self |-> self, result |-> Ok("()"), rest |-> buf]

\* Parser::parse_body, given the unread bytes
ParseBody(self, buf) ==
    IF IsSome(self.content_length)
    THEN LET read == ReadExact(buf, self.content_length.val)
         IN  IF ~read.result.ok
             THEN [self |-> self, result |-> Err(MalformedRequest), rest |-> read.rest]
             ELSE [self |-> [self EXCEPT !.body = Some(read.result.val), !.state = "Done"],
                   result |-> Ok("()"), rest |-> read.rest]
    ELSE [self |-> [self EXCEPT !.state = "Done"], result |-> Ok("()"), rest |-> buf]

\* HttpRequest::from_stream, from the value Parser::parse returned
FromStream(parse_result) ==
    IF ~parse_result.ok THEN Err(parse_result.err)
    ELSE LET got == GetRequest(parse_result.val)
         IN  IF got.ok THEN Ok(got.val) ELSE Err(Unreachable)

(***************************************************************************)
(* Router and file storage (src/src/main.rs)                               *)
(***************************************************************************)
\* a panic of the thread, as Option::unwrap and Result::unwrap raise it
Panic == [ok |-> FALSE, panic |-> TRUE]

IsPanic(r) == "panic" \in DOMAIN r

\* AssertMethod as a call whose result is dropped: every method passes
AssertMethodDropped(request, accepted) == Ok("()")

\* assert_method
AssertMethod(request, accepted) ==
    IF \E i \in 1..Len(accepted) : accepted[i] = request.method
    THEN Ok("()")
    ELSE Err(MethodNotAllowed(accepted))

\* path.split('/').filter(|s| !s.is_empty()).collect(), then parts.get(1).unwrap_or(&"")
PathParam(path) ==
    LET pieces == Split(path, "/")
        parts == SelectSeq(pieces, LAMBDA piece : Len(piece) > 0)
    IN  IF Len(parts) >= 2 THEN parts[2] ELSE ""

\* What the file system answers to one request: File::open and
\* read_to_string for get_file, File::create and write_all for write_file.
FsReadAnswers ==
    {[open |-> "Ok", read |-> "Ok", content |-> "data"],
     [open |-> "Ok", read |-> "PermissionDenied", content |-> ""],
     [open |-> "Ok", read |-> "Other", content |-> ""],
     [open |-> "NotFound", read |-> "Unused", content |-> ""],
     [open |-> "PermissionDenied", read |-> "Unused", content |-> ""],
     [open |-> "Other", read |-> "Unused", content |-> ""]}

FsWriteAnswers ==
    {[create |-> "Ok", write |-> "Ok"],
     [create |-> "Ok", write |-> "PermissionDenied"],
     [create |-> "Ok", write |-> "Other"],
     [create |-> "NotFound", write |-> "Unused"],
     [create |-> "PermissionDenied", write |-> "Unused"],
     [create |-> "Other", write |-> "Unused"]}

FsNoAnswer == [open |-> "Unused"]

\* one call to the file system and the kind of its answer
FsCall(op, result) == [op |-> op, result |-> result]

\* get_file: the result and the file system calls made
GetFile(filename, fs) ==
    IF fs.open = "Ok"
    THEN IF fs.read = "Ok"
         THEN [result |-> Ok(fs.content),
               calls |-> <<FsCall("open", fs.open), FsCall("read", fs.read)>>]
         ELSE [result |-> Err(InternalError),
               calls |-> <<FsCall("open", fs.open), FsCall("read", fs.read)>>]
    ELSE IF fs.open = "NotFound"
         THEN [result |-> Err(NotFound(filename)), calls |-> <<FsCall("open", fs.open)>>]
         ELSE [result |-> Err(InternalError), calls |-> <<FsCall("open", fs.open)>>]

\* write_file: the match on write_all's result is bound to `_` and dropped
WriteFile(filename, content, fs) ==
    IF fs.create = "Ok"
    THEN [result |-> Ok("()"),
          calls |-> <<FsCall("create", fs.create), FsCall("write", fs.write)>>]
    ELSE [result |-> Err(InternalError), calls |-> <<FsCall("create", fs.create)>>]

\* String::from_utf8; the bytes of the modelled streams are ASCII
StringFromUtf8(bytes) == Ok(bytes)

\* handle_request after `HttpRequest::from_stream(&stream)?`: the match on
\* the path.  main.rs calls with_body without an encoding argument.
Route(request, fs) ==
    LET path == request.path
        get == AssertMethod(request, <<HttpMethod("GET")>>)
        param == PathParam(path)
    IN  CASE path = "/" ->
                [result |-> IF ~get.ok THEN get ELSE Ok(BuilderToResponse(BuilderNew)),
                 calls |-> <<>>]
          [] path = "/user-agent" ->
                LET user_agent == GetValue(request.headers, "User-Agent")
                    builder == IF IsSome(user_agent)
                               THEN BuilderWithBody(BuilderNew, user_agent.val,
                                                    MimeType("PlainText"), None)
                               ELSE BuilderNew
                IN  [result |-> IF ~get.ok THEN get ELSE Ok(BuilderToResponse(builder)),
                     calls |-> <<>>]
          [] path # "/" /\ path # "/user-agent" /\ StartsWith(path, "/echo/") ->
                [result |-> IF ~get.ok THEN get
                            ELSE Ok(BuilderToResponse(
                                     BuilderWithBody(BuilderNew, param,
                                                     MimeType("PlainText"), None))),
                 calls |-> <<>>]
          [] path # "/" /\ path # "/user-agent" /\ ~StartsWith(path, "/echo/")
             /\ StartsWith(path, "/files/") ->
                IF request.method = HttpMethod("GET")
                THEN LET file == GetFile(param, fs)
                     IN  [result |-> IF ~file.result.ok THEN file.result
                                     ELSE Ok(BuilderToResponse(
                                              BuilderWithBody(BuilderNew, file.result.val,
                                                              MimeType("OctetStream"), None))),
                          calls |-> file.calls]
                ELSE IF request.method = HttpMethod("POST")
                THEN IF ~IsSome(request.body)
                     THEN [result |-> Panic, calls |-> <<>>]
                     ELSE
                     LET content == StringFromUtf8(request.body.val)
                     IN  IF ~content.ok
                         THEN [result |-> Err(InternalError), calls |-> <<>>]
                         ELSE
                         LET written == WriteFile(param, content.val, fs)
                         IN  [result |-> IF ~written.result.ok THEN written.result
                                         ELSE Ok(BuilderToResponse(
                                                  BuilderWithStatus(BuilderNew,
                                                                    HttpStatus("Created")))),
                              calls |-> written.calls]
                ELSE [result |-> Err(MethodNotAllowed(<<HttpMethod("GET"), HttpMethod("POST")>>)),
                      calls |-> <<>>]
          [] OTHER -> [result |-> Err(NotFound(path)), calls |-> <<>>]

\* HandleRequestResult opening the file of /files/ before it looks at the method
HandleRequestResultOpeningFirst(from_stream, fs) ==
    IF ~from_stream.ok
    THEN [result |-> Err(HttpErrorFromParseError(from_stream.err)), calls |-> <<>>]
    ELSE LET routed == Route(from_stream.val, fs)
         IN  IF StartsWith(from_stream.val.path, "/files/")
             THEN [result |-> routed.result,
                   calls |-> <<FsCall("open", "Ok")>> \o routed.calls]
             ELSE routed

\* handle_request, from the value from_stream returned
HandleRequestResult(from_stream, fs) ==
    IF ~from_stream.ok
    THEN [result |-> Err(HttpErrorFromParseError(from_stream.err)), calls |-> <<>>]
    ELSE Route(from_stream.val, fs)

\* the file system answers handle_request can meet for a request
FsAnswers(from_stream) ==
    IF from_stream.ok /\ StartsWith(from_stream.val.path, "/files/")
       /\ ~StartsWith(from_stream.val.path, "/echo/")
    THEN IF from_stream.val.method = HttpMethod("GET") THEN FsReadAnswers
         ELSE IF from_stream.val.method = HttpMethod("POST") /\ IsSome(from_stream.val.body)
              THEN FsWriteAnswers
              ELSE {FsNoAnswer}
    ELSE {FsNoAnswer}

(***************************************************************************)
(* What a client sends on one connection: a request line, header lines,    *)
(* and, when blank is TRUE, the blank line and the bytes after it.  When    *)
(* open is FALSE the stream ends (the client closes its side) after the    *)
(* last of these bytes; when open is TRUE the client sends no more and     *)
(* keeps the connection open.                                              *)
(***************************************************************************)
MaxHeaders == 2

LineMethods == {"GET", "POST", "DELETE"}

LinePaths == {"/", "/user-agent", "/echo/abc", "/files/f", "/nope"}

GoodRequestLines ==
    {m \o " " \o p \o " HTTP/1.1\r\n" : m \in LineMethods, p \in LinePaths}

\* request lines that fail, or that the end of the stream cuts short
OddRequestLines ==
    {"", "\r\n", "GET\r\n", "GET /\r\n", "GET /", "FOO\r\n", "FOO / HTTP/9\r\n",
     "get / HTTP/1.1\r\n", "GET / HTTP/9\r\n", "GET / HTTP/1.1", "PUT  /  HTTP/2.0 x\n"}

HeaderLines ==
    {"Content-Length: 5\r\n",
     "content-length: 2\r\n",
     "Accept-Encoding: zstd, gzip, br\r\n",
     "ACCEPT-ENCODING: foo,deflate\r\n",
     "User-Agent: curl\r\n",
     "NoColon\r\n"}

\* a header line the end of the stream cuts short
CutHeaderLines == {"Content-Length: 5", "Host"}

\* the bytes after the blank line: a body, and what may follow it
Tails == {"", "he", "hello", "hello!", "X: y\r\n"}

RECURSIVE SeqsUpTo(_, _)
SeqsUpTo(S, n) ==
    IF n = 0 THEN {<<>>}
    ELSE LET shorter == SeqsUpTo(S, n - 1)
         IN  shorter \cup {Append(q, e) : q \in shorter, e \in S}

\* clients that keep the connection open after what they sent
OpenInputs ==
    {[request_line |-> l, header_lines |-> hs, blank |-> FALSE, tail |-> "",
      open |-> TRUE] :
        l \in {"GET / HTTP/1.1\r\n", "POST /files/f HTTP/1.1\r\n"},
        hs \in {<<>>, <<"Content-Length: 5\r\n">>}}
    \cup
    {[request_line |-> l, header_lines |-> hs, blank |-> TRUE, tail |-> t,
      open |-> TRUE] :
        l \in {"GET / HTTP/1.1\r\n", "POST /files/f HTTP/1.1\r\n"},
        hs \in {<<>>, <<"Content-Length: 5\r\n">>},
        t \in {"", "he", "hello"}}
    \cup
    {[request_line |-> "GET /", header_lines |-> <<>>, blank |-> FALSE, tail |-> "",
      open |-> TRUE]}

\* clients that declare a body of no bytes
ZeroLengthInputs ==
    {[request_line |-> "POST /files/f HTTP/1.1\r\n",
      header_lines |-> <<"Content-Length: 0\r\n">>, blank |-> TRUE, tail |-> t,
      open |-> o] : t \in {"", "he"}, o \in BOOLEAN}

Inputs ==
    {[request_line |-> l, header_lines |-> <<>>, blank |-> FALSE, tail |-> "",
      open |-> FALSE] : l \in OddRequestLines}
    \cup
    {[request_line |-> "GET / HTTP/1.1\r\n", header_lines |-> <<h>>, blank |-> FALSE,
      tail |-> "", open |-> FALSE] : h \in CutHeaderLines}
    \cup
    {[request_line |-> l, header_lines |-> hs, blank |-> FALSE, tail |-> "",
      open |-> FALSE] : l \in GoodRequestLines, hs \in SeqsUpTo(HeaderLines, MaxHeaders)}
    \cup
    {[request_line |-> l, header_lines |-> hs, blank |-> TRUE, tail |-> t,
      open |-> FALSE] :
        l \in GoodRequestLines, hs \in SeqsUpTo(HeaderLines, MaxHeaders), t \in Tails}
    \cup OpenInputs
    \cup ZeroLengthInputs

\* the bytes of an input, in the order they are sent
RECURSIVE Concat(_)
Concat(lines) == IF Len(lines) = 0 THEN "" ELSE lines[1] \o Concat(Tail(lines))

Bytes(in) ==
    in.request_line \o Concat(in.header_lines)
    \o (IF in.blank THEN "\r\n" \o in.tail ELSE "")

NoInput ==
    [request_line |-> "", header_lines |-> <<>>, blank |-> FALSE, tail |-> "", open |-> FALSE]

(***************************************************************************)
(* The server: main's accept loop, one connection at a time                *)
(***************************************************************************)
VARIABLES
    pc,         \* where main is: "accept", "parse", "handle", "respond",
                \* "written", "panicked"
    input,      \* what the client of the current connection sends
    stream,     \* the bytes of the connection not yet read
    parser,     \* the Parser of the current connection
    parsed,     \* Option of the Result that Parser::parse returned
    request,    \* Option of the Result that HttpRequest::from_stream returned
    calls,      \* the file system calls handle_request made
    outcome,    \* Option of the Result that handle_request returned
    response,   \* Option of the HttpResponse main wrote to the connection
    builder,    \* Option of the HttpResponseBuilder a caller of http.rs holds
    call,       \* the last call that caller made: its name, receiver, arguments
    returned    \* Option of the value that call returned

serverVars == <<pc, input, stream, parser, parsed, request, calls, outcome, response>>

modelVars == <<builder, call, returned>>

vars == <<serverVars, modelVars>>

NoCall == [op |-> "none"]

Init ==
    /\ pc = "accept"
    /\ input = NoInput
    /\ stream = ""
    /\ parser = ParserNew
    /\ parsed = None
    /\ request = None
    /\ calls = <<>>
    /\ outcome = None
    /\ response = None
    /\ builder = None
    /\ call = NoCall
    /\ returned = None

\* listener.incoming() yields Ok(stream); handle_request starts and
\* from_stream makes the parser
Accept ==
    /\ pc = "accept"
    /\ pc' = "parse"
    /\ \E in \in Inputs :
         /\ input' = in
         /\ stream' = Bytes(in)
    /\ parser' = ParserNew
    /\ UNCHANGED <<parsed, request, calls, outcome, response, modelVars>>

\* listener.incoming() yields Err(e): it is printed and the loop goes on
AcceptError ==
    /\ pc = "accept"
    /\ UNCHANGED vars

\* Parser::parse returns result, and from_stream goes on from it
ParseReturns(result) ==
    /\ parsed' = Some(result)
    /\ request' = Some(FromStream(result))
    /\ pc' = "handle"

\* one turn of the while loop of Parser::parse, and the return when the
\* loop ends without a body to read
ParseLine ==
    /\ pc = "parse"
    /\ parser.state \notin {"Done", "Body"}
    /\ LineReady(input.open, stream)
    /\ LET read == ReadLine(stream)
       IN  IF Len(read.line) = 0
           THEN /\ UNCHANGED <<stream, parser>>
                /\ ParseReturns(Ok(parser))
           ELSE LET step == IF parser.state = "Start"
                            THEN ParseStartLine(parser, read.line)
                            ELSE ParseHeader(parser, read.line)
                IN  /\ stream' = read.rest
                    /\ parser' = step.self
                    /\ IF ~step.result.ok
                       THEN ParseReturns(Err(step.result.err))
                       ELSE IF step.self.state = "Done"
                       THEN ParseReturns(Ok(step.self))
                       ELSE UNCHANGED <<pc, parsed, request>>
    /\ UNCHANGED <<input, calls, outcome, response, modelVars>>

\* `if self.state == ParserState::Body { self.parse_body(&mut reader)?; }`
\* and the return of Parser::parse
ParseBodyStep ==
    /\ pc = "parse"
    /\ parser.state = "Body"
    /\ IsSome(parser.content_length)
       => ExactReady(input.open, stream, parser.content_length.val)
    /\ LET step == ParseBody(parser, stream)
       IN  /\ stream' = step.rest
           /\ parser' = step.self
           /\ ParseReturns(IF step.result.ok THEN Ok(step.self) ELSE Err(step.result.err))
    /\ UNCHANGED <<input, calls, outcome, response, modelVars>>

\* the rest of handle_request
HandleRequest ==
    /\ pc = "handle"
    /\ \E fs \in FsAnswers(request.val) :
         LET handled == HandleRequestResult(request.val, fs)
         IN  /\ calls' = handled.calls
             /\ outcome' = Some(handled.result)
             /\ pc' = IF IsPanic(handled.result) THEN "panicked" ELSE "respond"
    /\ UNCHANGED <<input, stream, parser, parsed, request, response, modelVars>>

\* main formats the response or the error's response and writes it;
\* write_all(..).unwrap() panics when the write fails
Respond ==
    /\ pc = "respond"
    /\ response' = Some(IF outcome.val.ok THEN outcome.val.val
                        ELSE HttpErrorToResponse(outcome.val.err))
    /\ \/ pc' = "written"
       \/ pc' = "panicked"
    /\ UNCHANGED <<input, stream, parser, parsed, request, calls, outcome, modelVars>>

\* the body of the for loop ends: the stream, the request and the response
\* are dropped, and the loop asks the listener for the next connection
NextConnection ==
    /\ pc = "written"
    /\ pc' = "accept"
    /\ input' = NoInput
    /\ stream' = ""
    /\ parser' = ParserNew
    /\ parsed' = None
    /\ request' = None
    /\ calls' = <<>>
    /\ outcome' = None
    /\ response' = None
    /\ UNCHANGED modelVars

Next ==
    \/ Accept
    \/ AcceptError
    \/ ParseLine
    \/ ParseBodyStep
    \/ HandleRequest
    \/ Respond
    \/ NextConnection

Spec == Init /\ [][Next]_vars

(***************************************************************************)
(* The message model on its own: a caller of http.rs builds responses,     *)
(* maps errors to responses, and writes and reads back method and version  *)
(* tokens, one call at a time.                                             *)
(***************************************************************************)
MaxAllowed == 2

Bodies == {"", "hi", "Hello, world!"}

\* the encodings a caller passes to with_body
BodyEncodings ==
    {None, Some(HttpEncoding("Gzip")), Some(HttpEncoding("Brotli")),
     Some(HttpEncoding("Unsupported"))}

BuilderStatuses == {HttpStatus("Created"), HttpStatus("NotFound")}

\* the headers callers add by name: HttpError::to_response is the one caller
\* of HttpResponseBuilder::add_header in the repository
AddedHeaders == {HttpHeader("WWW-Authenticate", "Basic")}

AllowLists == SeqsUpTo({HttpMethod("GET"), HttpMethod("POST"), HttpMethod("TRACE")}, MaxAllowed)

HttpErrors ==
    {NotFound("/nope"), InternalError, Unauthorized, Forbidden,
     BadRequest(MalformedRequest), BadRequest(UnknownMethod("FOO"))}
    \cup {MethodNotAllowed(methods) : methods \in AllowLists}

CallNew ==
    /\ UNCHANGED serverVars
    /\ builder = None
    /\ builder' = Some(BuilderNew)
    /\ call' = [op |-> "HttpResponseBuilder::new"]
    /\ returned' = None

CallWithStatus ==
    /\ UNCHANGED serverVars
    /\ IsSome(builder)
    /\ \E status \in BuilderStatuses :
         /\ builder' = Some(BuilderWithStatus(builder.val, status))
         /\ call' = [op |-> "with_status", self |-> builder.val, status |-> status]
    /\ returned' = None

CallWithBody ==
    /\ UNCHANGED serverVars
    /\ IsSome(builder)
    /\ \E body \in Bodies, mime_type \in MimeTypes, encoding \in BodyEncodings :
         /\ builder' = Some(BuilderWithBody(builder.val, body, mime_type, encoding))
         /\ call' = [op |-> "with_body", self |-> builder.val, body |-> body,
                     mime_type |-> mime_type, encoding |-> encoding]
    /\ returned' = None

CallAddHeader ==
    /\ UNCHANGED serverVars
    /\ IsSome(builder)
    /\ \E header \in AddedHeaders :
         /\ builder' = Some(BuilderAddHeader(builder.val, header.name, header.value))
         /\ call' = [op |-> "add_header", self |-> builder.val, header |-> header]
    /\ returned' = None

\* to_response takes the builder by value
CallToResponse ==
    /\ UNCHANGED serverVars
    /\ IsSome(builder)
    /\ builder' = None
    /\ call' = [op |-> "to_response", self |-> builder.val]
    /\ returned' = Some(BuilderToResponse(builder.val))

CallErrorToResponse ==
    /\ UNCHANGED serverVars
    /\ builder = None
    /\ \E error \in HttpErrors :
         /\ call' = [op |-> "HttpError::to_response", self |-> error]
         /\ returned' = Some(HttpErrorToResponse(error))
    /\ UNCHANGED builder

\* format!("{}", x) for a method or a version
CallDisplay ==
    /\ UNCHANGED serverVars
    /\ builder = None
    /\ \E value \in HttpMethods \cup HttpVersions :
         /\ call' = [op |-> "to_string", self |-> value]
         /\ returned' = Some(IF value.enum = "HttpMethod"
                             THEN HttpMethodToString(value)
                             ELSE HttpVersionToString(value))
    /\ UNCHANGED builder

\* from_str of the string the last call wrote, for the enum it was written from
CallFromStr ==
    /\ UNCHANGED serverVars
    /\ builder = None
    /\ call.op = "to_string"
    /\ call' = [op |-> "from_str", enum |-> call.self.enum, written |-> call.self,
                input |-> returned.val]
    /\ returned' = Some(IF call.self.enum = "HttpMethod"
                        THEN HttpMethodFromStr(returned.val)
                        ELSE HttpVersionFromStr(returned.val))
    /\ UNCHANGED builder

\* the header lines Parser::parse hands to parse_header, one call at a time
MaxHeaderCalls == 2

HeaderCallLines ==
    {"\r\n",
     "User-Agent: curl\r\n",
     "User-Agent: a: b\r\n",
     "user-agent:  wget \r\n",
     "X : y\r\n",
     "NoColon\r\n",
     "Content-Length:5\r\n",
     "Content-Length: 5\r\n",
     "content-length: 2\r\n",
     "CONTENT-LENGTH: 10\r\n",
     "Content-Length: \r\n",
     "Content-Length: -1\r\n",
     "content-length: abc\r\n"}

\* the parser after the request line GET / HTTP/1.1
HeadersParser == ParseStartLine(ParserNew, "GET / HTTP/1.1\r\n").self

\* parse_header on the parser an earlier call left, or on one that has read
\* the request line only
CallParseHeader ==
    /\ UNCHANGED serverVars
    /\ \E line \in HeaderCallLines :
         \/ /\ call = NoCall
            /\ call' = [op |-> "parse_header", self |-> HeadersParser, line |-> line,
                        calls |-> 1]
            /\ returned' = Some(ParseHeader(HeadersParser, line))
         \/ /\ call.op = "parse_header"
            /\ call.calls < MaxHeaderCalls
            /\ returned.val.result.ok
            /\ returned.val.self.state = "Headers"
            /\ call' = [op |-> "parse_header", self |-> returned.val.self, line |-> line,
                        calls |-> call.calls + 1]
            /\ returned' = Some(ParseHeader(returned.val.self, line))
    /\ UNCHANGED builder

\* the headers a caller writes into an HttpHeaderCollection
MaxWrites == 3

WrittenHeaders ==
    {HttpHeader(name, value) : name \in {"Accept", "accept", "Host"}, value \in {"a", "b"}}

\* the names a caller looks up
LookedUpNames == {"Accept", "accept", "Host", "ACCEPT"}

CollectionOps ==
    {"HttpHeaderCollection::new", "HttpHeaderCollection::add_header",
     "HttpHeaderCollection::from_vector"}

\* HttpHeaderCollection::new(); written is the list of the writes so far
CallCollectionNew ==
    /\ UNCHANGED serverVars
    /\ call = NoCall
    /\ call' = [op |-> "HttpHeaderCollection::new", written |-> <<>>]
    /\ returned' = Some(HeadersNew)
    /\ UNCHANGED builder

\* collection.add_header(key, value); returned holds the collection after it
CallCollectionAddHeader ==
    /\ UNCHANGED serverVars
    /\ call.op \in CollectionOps
    /\ Len(call.written) < MaxWrites
    /\ \E header \in WrittenHeaders :
         /\ call' = [op |-> "HttpHeaderCollection::add_header", self |-> returned.val,
                     key |-> header.name, value |-> header.value,
                     written |-> Append(call.written, header)]
         /\ returned' = Some(AddHeader(returned.val, header.name, header.value))
    /\ UNCHANGED builder

\* HttpHeaderCollection::from_vector(input)
CallFromVector ==
    /\ UNCHANGED serverVars
    /\ call = NoCall
    /\ \E vector \in SeqsUpTo(WrittenHeaders, MaxWrites - 1) :
         /\ call' = [op |-> "HttpHeaderCollection::from_vector", input |-> vector,
                     written |-> vector]
         /\ returned' = Some(FromVector(vector))
    /\ UNCHANGED builder

\* collection.get_value(&key)
CallGetValue ==
    /\ UNCHANGED serverVars
    /\ call.op \in CollectionOps
    /\ \E key \in LookedUpNames :
         /\ call' = [op |-> "HttpHeaderCollection::get_value", self |-> returned.val,
                     key |-> key, written |-> call.written]
         /\ returned' = Some(GetValue(returned.val, key))
    /\ UNCHANGED builder

\* format!("{}", response) for the response the last call returned
CallResponseDisplay ==
    /\ UNCHANGED serverVars
    /\ call.op \in {"to_response", "HttpError::to_response"}
    /\ \E order \in ValuesOrders(returned.val.headers) :
         /\ call' = [op |-> "HttpResponse::to_string", self |-> returned.val,
                     order |-> order]
         /\ returned' = Some(HttpResponseToString(returned.val, order))
    /\ UNCHANGED builder

ModelNext ==
    \/ CallNew
    \/ CallWithStatus
    \/ CallWithBody
    \/ CallAddHeader
    \/ CallToResponse
    \/ CallErrorToResponse
    \/ CallDisplay
    \/ CallFromStr
    \/ CallResponseDisplay
    \/ CallParseHeader
    \/ CallCollectionNew
    \/ CallCollectionAddHeader
    \/ CallFromVector
    \/ CallGetValue

SpecModel == Init /\ [][ModelNext]_vars

(***************************************************************************)
(* Properties                                                              *)
(***************************************************************************)
\* the tokens the specification names for methods and versions
MethodTokens ==
    {"GET", "POST", "PUT", "DELETE", "OPTIONS", "HEAD", "CONNECT", "PATCH", "TRACE"}

VersionTokens == {"HTTP/1.0", "HTTP/1.1", "HTTP/2.0"}

\* the lines of a byte stream, the last one possibly without its line feed
RECURSIVE LinesOf(_)
LinesOf(buf) ==
    IF Len(buf) = 0 THEN <<>>
    ELSE LET read == ReadLine(buf) IN <<read.line>> \o LinesOf(read.rest)

\* the first line of the current connection and its tokens
FirstLine == IF Len(Bytes(input)) = 0 THEN "" ELSE LinesOf(Bytes(input))[1]

FirstLineTokens == SplitAsciiWhitespace(FirstLine)

\* the parser has been given the first line of the connection
FirstLineParsed == pc # "accept" /\ Len(stream) < Len(Bytes(input))

\* Parser::parse has returned for the current connection
ParseReturned == IsSome(parsed)

\* C1: when the header block has recorded Content-Length n and its blank
\* line has been read, Parser::parse and get_request yield a request whose
\* body is exactly the first n bytes after the blank line; when fewer than
\* n bytes follow before the stream ends, parse fails with MalformedRequest
\* and no request is produced.
C1_BodyIsFirstContentLengthBytes ==
    (ParseReturned /\ parser.state \in {"Body", "Done"} /\ IsSome(parser.content_length))
    => LET n == parser.content_length.val
       IN  /\ input.blank
           /\ IF Len(input.tail) >= n
              THEN /\ parsed.val.ok
                   /\ request.val.ok
                   /\ request.val.val.body = Some(SubSeq(input.tail, 1, n))
              ELSE /\ parsed.val = Err(MalformedRequest)
                   /\ ~request.val.ok

\* C1 happens: Content-Length 5 followed by six bytes gives the body hello
C1_Witness ==
    /\ pc = "handle"
    /\ input.tail = "hello!"
    /\ parser.content_length = Some(5)
    /\ request.val.ok
    /\ request.val.val.body = Some("hello")

\* the encodings the Accept-Encoding lines of the modelled inputs list
ListedEncodings(line) ==
    CASE line = "Accept-Encoding: zstd, gzip, br\r\n" -> {"Zstd", "Gzip", "Brotli"}
      [] line = "ACCEPT-ENCODING: foo,deflate\r\n" -> {"Unsupported", "Deflate"}
      [] OTHER -> {}

AllListedEncodings(in) ==
    UNION {ListedEncodings(in.header_lines[i]) : i \in 1..Len(in.header_lines)}

\* the fixed order of the specification
NegotiationOrder ==
    <<"Gzip", "Deflate", "Brotli", "Compress", "Exi", "Identity", "Zstd", "Unsupported">>

LowestOrdered(names) ==
    NegotiationOrder[CHOOSE i \in 1..Len(NegotiationOrder) :
                        /\ NegotiationOrder[i] \in names
                        /\ \A j \in 1..(i - 1) : NegotiationOrder[j] \notin names]

\* C2: the encoding of a parsed request is the lowest-ordered of the
\* encodings its Accept-Encoding header lines list, in the order Gzip <
\* Deflate < Brotli < Compress < Exi < Identity < Zstd < Unsupported,
\* whatever order the client listed them in, and absent when none is listed.
C2_NegotiatedEncodingIsLowestOrdered ==
    (IsSome(request) /\ request.val.ok)
    => LET listed == AllListedEncodings(input)
       IN  request.val.val.encoding =
               IF listed = {} THEN None ELSE Some(HttpEncoding(LowestOrdered(listed)))

\* C2 happens: zstd, gzip, br gives gzip
C2_Witness ==
    /\ IsSome(request)
    /\ request.val.ok
    /\ input.header_lines = <<"Accept-Encoding: zstd, gzip, br\r\n">>
    /\ request.val.val.encoding = Some(HttpEncoding("Gzip"))

\* the stream of the current connection holds no blank line
EndsBeforeBlankLine ==
    LET lines == LinesOf(Bytes(input))
    IN  \A i \in 1..Len(lines) : Len(Trim(lines[i])) > 0

\* a line that parse_start_line accepts, and one that parse_header accepts
WellFormedRequestLine(line) ==
    LET tokens == SplitAsciiWhitespace(line)
    IN  Len(tokens) >= 3 /\ tokens[1] \in MethodTokens /\ tokens[3] \in VersionTokens

WellFormedHeaderLine(line) ==
    LET parts == Split(line, ": ")
    IN  /\ Len(parts) >= 2
        /\ EqIgnoreAsciiCase(Trim(parts[1]), "Content-Length")
           => IsSome(ParseUsize(Trim(parts[2])))

WellFormedLine(lines, i) ==
    IF i = 1 THEN WellFormedRequestLine(lines[i]) ELSE WellFormedHeaderLine(lines[i])

IsTerminated(line) == Len(line) > 0 /\ CharAt(line, Len(line)) = "\n"

\* the stream is a well-formed request up to the place where it ends: every
\* line that has its line feed is well formed
WellFormedUntilCut ==
    LET lines == LinesOf(Bytes(input))
    IN  \A i \in 1..Len(lines) : IsTerminated(lines[i]) => WellFormedLine(lines, i)

\* every line of the stream is well formed, a last line without its line
\* feed included
WellFormedLines ==
    LET lines == LinesOf(Bytes(input))
    IN  \A i \in 1..Len(lines) : WellFormedLine(lines, i)

\* C3 as stated: whenever the stream (of a request well formed as far as it
\* goes) ends before the blank line, Parser::parse returns without error and
\* leaves the parser in a state other than Done.
C3_AsStated ==
    (ParseReturned /\ EndsBeforeBlankLine /\ WellFormedUntilCut)
    => (parsed.val.ok /\ parsed.val.val.state # "Done")

\* C3: when the stream ends before the blank line and every line of it is
\* well formed, a last line that lacks its line feed included, Parser::parse
\* returns Ok with the parser in Start or Headers; get_request on every
\* parser that is not Done returns Unparsed, which from_stream reports as an
\* error and never as a request.
C3_EndOfStreamLeavesParserUnfinished ==
    /\ (ParseReturned /\ EndsBeforeBlankLine /\ WellFormedLines)
       => /\ parsed.val.ok
          /\ parsed.val.val.state \in {"Start", "Headers"}
          /\ parsed.val.val = parser
          /\ request.val = Err(Unreachable)
    /\ parser.state # "Done" => GetRequest(parser) = Err(Unparsed)
    /\ (ParseReturned /\ parsed.val.ok /\ parsed.val.val.state # "Done") => ~request.val.ok

\* C3 happens: the stream ends right after the request line
C3_Witness ==
    /\ ParseReturned
    /\ input.request_line = "GET / HTTP/1.1\r\n"
    /\ input.header_lines = <<>>
    /\ ~input.blank
    /\ parsed.val.ok
    /\ parser.state = "Headers"
    /\ request.val = Err(Unreachable)

\* C4: a request line with no token fails with MissingMethod, with only a
\* valid method with MissingPath, with only a valid method and a path with
\* MissingVersion, the parser staying in Start; the parser leaves Start
\* exactly when the line has a valid method, a path and a valid version.
C4_MissingTokens ==
    FirstLineParsed
    => LET tokens == FirstLineTokens
       IN  /\ Len(tokens) = 0
              => parsed = Some(Err(MissingMethod)) /\ parser.state = "Start"
           /\ (Len(tokens) = 1 /\ tokens[1] \in MethodTokens)
              => parsed = Some(Err(MissingPath)) /\ parser.state = "Start"
           /\ (Len(tokens) = 2 /\ tokens[1] \in MethodTokens)
              => parsed = Some(Err(MissingVersion)) /\ parser.state = "Start"
           /\ parser.state # "Start"
              <=> /\ Len(tokens) >= 3
                  /\ tokens[1] \in MethodTokens
                  /\ tokens[3] \in VersionTokens

\* C4 happens: a line with a method and a path only
C4_Witness ==
    /\ FirstLineParsed
    /\ Len(FirstLineTokens) = 2
    /\ parsed = Some(Err(MissingVersion))
    /\ parser.state = "Start"

\* C5 as stated: an unknown first token fails with UnknownMethod of that
\* token, and a third token that is no version fails with UnhandledVersion
\* of that token.
C5_AsStated ==
    FirstLineParsed
    => LET tokens == FirstLineTokens
       IN  /\ (Len(tokens) >= 1 /\ tokens[1] \notin MethodTokens)
              => parsed = Some(Err(UnknownMethod(tokens[1])))
           /\ (Len(tokens) >= 3 /\ tokens[3] \notin VersionTokens)
              => parsed = Some(Err(UnhandledVersion(tokens[3])))

\* C5: a request line whose first token is not one of the nine upper-case
\* method tokens fails with UnknownMethod carrying that token; when the
\* first token is a method, a third token that is not HTTP/1.0, HTTP/1.1 or
\* HTTP/2.0 fails with UnhandledVersion carrying that token.
C5_UnknownTokens ==
    FirstLineParsed
    => LET tokens == FirstLineTokens
       IN  /\ (Len(tokens) >= 1 /\ tokens[1] \notin MethodTokens)
              => /\ parsed = Some(Err(UnknownMethod(tokens[1])))
                 /\ parser.method = None
           /\ (Len(tokens) >= 3 /\ tokens[1] \in MethodTokens /\ tokens[3] \notin VersionTokens)
              => /\ parsed = Some(Err(UnhandledVersion(tokens[3])))
                 /\ parser.version = None

\* C5 happens: a valid method and path with the version HTTP/9
C5_Witness ==
    /\ FirstLineParsed
    /\ FirstLineTokens = <<"GET", "/", "HTTP/9">>
    /\ parsed = Some(Err(UnhandledVersion("HTTP/9")))

\* C6: reading back the string written for a method or a version gives Ok of
\* the variant that was written.
C6_RoundTrip ==
    call.op = "from_str" => returned = Some(Ok(call.written))

\* C6 happens: TRACE was written and read back
C6_Witness ==
    /\ call.op = "from_str"
    /\ call.written = HttpMethod("TRACE")
    /\ call.input = "TRACE"
    /\ IsSome(returned)

\* C7: with_body sets Content-Type to the media type string and
\* Content-Length to the byte length of the body, and adds Content-Encoding
\* exactly when an encoding other than Unsupported is given; to_response on
\* a builder that never had a body set carries none of the three headers,
\* and an unset version or status becomes HTTP/1.1 or 200 OK.
C7_BuilderFraming ==
    /\ call.op = "with_body"
       => LET after == builder.val.headers
              before == call.self.headers
              given == IsSome(call.encoding) /\ call.encoding.val.variant # "Unsupported"
          IN  /\ "Content-Type" \in DOMAIN after
              /\ after["Content-Type"] =
                     HttpHeader("Content-Type", MimeTypeToString(call.mime_type))
              /\ "Content-Length" \in DOMAIN after
              /\ ParseUsize(after["Content-Length"].value) = Some(Len(call.body))
              /\ given => /\ "Content-Encoding" \in DOMAIN after
                          /\ after["Content-Encoding"].value =
                                 HttpEncodingToString(call.encoding.val)
              /\ ~given => /\ "Content-Encoding" \in DOMAIN after
                              <=> "Content-Encoding" \in DOMAIN before
                           /\ "Content-Encoding" \in DOMAIN after
                              => after["Content-Encoding"] = before["Content-Encoding"]
              /\ DOMAIN after \ {"Content-Type", "Content-Length", "Content-Encoding"}
                 = DOMAIN before \ {"Content-Type", "Content-Length", "Content-Encoding"}
              /\ builder.val.body = Some(call.body)
    /\ call.op = "to_response"
       => /\ ~IsSome(call.self.body)
             => /\ DOMAIN returned.val.headers
                   \cap {"Content-Type", "Content-Length", "Content-Encoding"} = {}
                /\ returned.val.body = ""
          /\ ~IsSome(call.self.version) => HttpVersionToString(returned.val.version) = "HTTP/1.1"
          /\ ~IsSome(call.self.status) => HttpStatusToString(returned.val.status) = "200 OK"
          /\ IsSome(call.self.status) => returned.val.status = call.self.status.val

\* C7 happens: a JSON body of 13 bytes with the encoding Unsupported
C7_Witness ==
    /\ call.op = "with_body"
    /\ call.body = "Hello, world!"
    /\ call.mime_type = MimeType("JSON")
    /\ call.encoding = Some(HttpEncoding("Unsupported"))
    /\ builder.val.headers["Content-Type"].value = "application/json"
    /\ builder.val.headers["Content-Length"].value = "13"
    /\ "Content-Encoding" \notin DOMAIN builder.val.headers

\* the status code the specification gives each kind of HttpError
ErrorStatusCode(kind) ==
    CASE kind = "NotFound" -> 404
      [] kind = "MethodNotAllowed" -> 405
      [] kind = "BadRequest" -> 400
      [] kind = "Unauthorized" -> 401
      [] kind = "Forbidden" -> 403
      [] kind = "InternalError" -> 500

\* C8: HttpError::to_response gives every error the status of its kind;
\* MethodNotAllowed carries the one header Allowed with the methods joined
\* by commas in list order, Unauthorized the one header WWW-Authenticate:
\* Basic, and the other kinds no header.
C8_ErrorMapping ==
    call.op = "HttpError::to_response"
    => LET error == call.self
           res == returned.val
       IN  /\ HttpStatusCode(res.status) = ErrorStatusCode(error.kind)
           /\ res.version = HttpVersion("V11")
           /\ res.body = ""
           /\ error.kind = "MethodNotAllowed"
              => /\ DOMAIN res.headers = {"Allowed"}
                 /\ res.headers["Allowed"].name = "Allowed"
                 /\ IF Len(error.methods) = 0
                    THEN res.headers["Allowed"].value = ""
                    ELSE Split(res.headers["Allowed"].value, ",")
                         = [i \in 1..Len(error.methods) |-> error.methods[i].variant]
           /\ error.kind = "Unauthorized"
              => /\ DOMAIN res.headers = {"WWW-Authenticate"}
                 /\ res.headers["WWW-Authenticate"] = HttpHeader("WWW-Authenticate", "Basic")
           /\ error.kind \notin {"MethodNotAllowed", "Unauthorized"}
              => DOMAIN res.headers = {}

\* C8 happens: MethodNotAllowed([GET, POST]) gives 405 and Allowed: GET,POST
C8_Witness ==
    /\ call.op = "HttpError::to_response"
    /\ call.self = MethodNotAllowed(<<HttpMethod("GET"), HttpMethod("POST")>>)
    /\ HttpStatusToString(returned.val.status) = "405 Method Not Allowed"
    /\ returned.val.headers["Allowed"].value = "GET,POST"

\* the allow-list the specification gives the route of a path; the empty
\* list when the path matches no route
RouteAllowList(path) ==
    IF path \in {"/", "/user-agent"} \/ StartsWith(path, "/echo/")
    THEN <<HttpMethod("GET")>>
    ELSE IF StartsWith(path, "/files/")
    THEN <<HttpMethod("GET"), HttpMethod("POST")>>
    ELSE <<>>

\* C9: for a parsed request, handle_request returns NotFound when the path
\* matches no route, whatever the method, and MethodNotAllowed with the
\* route's allow-list when the path matches a route that does not allow the
\* method; main answers these with 404 and 405.
C9_NotFoundAndMethodNotAllowed ==
    (IsSome(outcome) /\ request.val.ok)
    => LET req == request.val.val
           allowed == RouteAllowList(req.path)
       IN  /\ Len(allowed) = 0
              => /\ outcome.val = Err(NotFound(req.path))
                 /\ IsSome(response) => HttpStatusCode(response.val.status) = 404
           /\ (Len(allowed) > 0 /\ \A i \in 1..Len(allowed) : allowed[i] # req.method)
              => /\ outcome.val = Err(MethodNotAllowed(allowed))
                 /\ calls = <<>>
                 /\ IsSome(response) => HttpStatusCode(response.val.status) = 405

\* C9 happens: DELETE on /files/f is answered 405 with [GET, POST]
C9_Witness ==
    /\ pc = "written"
    /\ request.val.ok
    /\ request.val.val.path = "/files/f"
    /\ request.val.val.method = HttpMethod("DELETE")
    /\ outcome.val = Err(MethodNotAllowed(<<HttpMethod("GET"), HttpMethod("POST")>>))
    /\ HttpStatusCode(response.val.status) = 405

\* C10: a connection whose request fails to parse, by a ParseError or by
\* the stream ending before the parser is Done, gets BadRequest from
\* handle_request and the response 400 Bad Request from main; once
\* Parser::parse has returned the connection is not parsed again, and no
\* more of the stream is read.
C10_ParseFailureIsBadRequest ==
    /\ (IsSome(request) /\ ~request.val.ok)
       => /\ IsSome(outcome) => outcome.val = Err(BadRequest(request.val.err))
          /\ IsSome(response)
             => HttpStatusToString(response.val.status) = "400 Bad Request"
          /\ pc # "panicked" \/ IsSome(response)
    /\ (ParseReturned /\ (~parsed.val.ok \/ parsed.val.val.state # "Done"))
       => IsSome(request) /\ ~request.val.ok
    /\ ParseReturned <=> pc \in {"handle", "respond", "written", "panicked"}

\* C10 happens: the stream ended in the headers and 400 was written
C10_Witness ==
    /\ pc = "written"
    /\ request.val = Err(Unreachable)
    /\ parser.state = "Headers"
    /\ HttpStatusToString(response.val.status) = "400 Bad Request"

\* the kind of HttpError the specification gives each kind of storage failure
StorageErrorKind(failure) ==
    CASE failure = "NotFound" -> "NotFound"
      [] failure = "PermissionDenied" -> "Forbidden"
      [] OTHER -> "InternalError"

\* the last call handle_request made to the file system failed
StorageFailed == Len(calls) > 0 /\ calls[Len(calls)].result # "Ok"

\* C11: on /files/<name>, a failure of the file system while opening,
\* creating, reading or writing the file makes handle_request return the
\* HttpError of the failure's kind: NotFound for not-found, Forbidden for
\* permission-denied, InternalError for any other; in particular never a
\* success.
C11_AsStated ==
    (IsSome(outcome) /\ StorageFailed)
    => /\ ~outcome.val.ok
       /\ outcome.val.err.kind = StorageErrorKind(calls[Len(calls)].result)

\* the process has ended: the panic of an unwrap unwinds main
Terminated == pc = "panicked"

\* C12: no failure on a connection ends the server: after a request that
\* failed to parse, and after main has formed the response of a connection,
\* whether the write of its bytes succeeds or fails, the process is still
\* running its accept loop.
C12_AsStated ==
    (IsSome(response) \/ (IsSome(request) /\ ~request.val.ok)) => ~Terminated

\* no connection is in progress: main holds no stream, request or response
NothingInProgress ==
    /\ input = NoInput
    /\ stream = ""
    /\ parser = ParserNew
    /\ ~IsSome(parsed)
    /\ ~IsSome(request)
    /\ ~IsSome(outcome)
    /\ ~IsSome(response)

\* the client of the connection in progress declared a Content-Length body,
\* sent less of it than declared, and keeps the connection open
BodyNeverCompleted ==
    /\ pc = "parse"
    /\ input.open
    /\ parser.state = "Body"
    /\ IsSome(parser.content_length)
    /\ Len(stream) < parser.content_length.val

\* C13: connections are handled one at a time: while main waits in accept
\* no connection is in progress, main comes back to accept only from the
\* state in which the response of the connection has been written, and a
\* connection whose declared Content-Length body is never completed and
\* never closed stops the server for good: no step follows, so no later
\* connection is accepted or answered.
C13_OneConnectionAtATime ==
    /\ [](pc = "accept" => NothingInProgress)
    /\ [][pc' = "accept" => (pc = "accept" \/ (pc = "written" /\ IsSome(response)))]_vars
    /\ [][pc' = "parse" => (pc = "parse" \/ (pc = "accept" /\ NothingInProgress))]_vars
    /\ [][~BodyNeverCompleted]_vars

\* C13 happens: Content-Length 5, two bytes sent, the connection kept open
C13_Witness ==
    /\ BodyNeverCompleted
    /\ input.tail = "he"
    /\ parser.content_length = Some(5)
    /\ ~IsSome(parsed)

\* the line the specification gives a header
HeaderLine(header) == header.name \o ": " \o header.value \o "\r\n"

\* the status line the specification gives a response
StatusLine(res) ==
    HttpVersionToString(res.version) \o " " \o UsizeToString(HttpStatusCode(res.status))
    \o " " \o HttpStatusDescription(res.status) \o "\r\n"

\* C14: the string written for an HttpResponse is its status line
\* `<version> <status-code> <reason>` and CRLF, then one line `Name: Value`
\* and CRLF for each header of its collection, each header once, then a
\* line that is only CRLF, then the body and nothing after it; with no
\* header and no body it is the status line and one more CRLF.
C14_ResponseSerialization ==
    call.op = "HttpResponse::to_string"
    => LET res == call.self
           text == returned.val
           lines == LinesOf(text)
           n == Cardinality(DOMAIN res.headers)
       IN  /\ Len(lines) >= n + 2
           /\ lines[1] = StatusLine(res)
           /\ {lines[i] : i \in 2..(n + 1)}
              = {HeaderLine(res.headers[name]) : name \in DOMAIN res.headers}
           /\ Cardinality({lines[i] : i \in 2..(n + 1)}) = n
           /\ lines[n + 2] = "\r\n"
           /\ Concat(SubSeq(lines, n + 3, Len(lines))) = res.body
           /\ (n = 0 /\ res.body = "") => text = StatusLine(res) \o "\r\n"

\* C14 happens: a plain text body of two bytes, Content-Length written first
C14_Witness ==
    /\ call.op = "HttpResponse::to_string"
    /\ returned.val
       = "HTTP/1.1 200 OK\r\nContent-Length: 2\r\nContent-Type: text/plain\r\n\r\nhi"

\* the line the parser reads next is the blank line that ends the headers
NextLineIsBlank ==
    LET line == ReadLine(stream).line
    IN  Len(line) > 0 /\ Len(Trim(line)) = 0

\* C15: while Parser::parse runs, the state of the parser changes only
\* from Start to Headers, from Headers to Body, from Headers to Done and
\* from Body to Done; it leaves Headers exactly on the blank line, to Body
\* when a Content-Length was recorded before it and to Done when none was.
C15_ParserStateMovesForward ==
    /\ [][(pc = "parse" /\ parser'.state # parser.state)
          => \/ parser.state = "Start" /\ parser'.state = "Headers"
             \/ /\ parser.state = "Headers"
                /\ NextLineIsBlank
                /\ parser'.state = IF IsSome(parser.content_length) THEN "Body" ELSE "Done"
             \/ parser.state = "Body" /\ parser'.state = "Done"]_vars
    /\ [][(pc = "parse" /\ parser.state = "Headers" /\ NextLineIsBlank /\ stream' # stream)
          => parser'.state = IF IsSome(parser.content_length) THEN "Body" ELSE "Done"]_vars
    /\ [][(pc \in {"handle", "respond"}) => (parser' = parser)]_vars

\* C15 happens: the blank line after Content-Length: 5 has led to Body
C15_Witness ==
    /\ pc = "parse"
    /\ parser.state = "Body"
    /\ parser.content_length = Some(5)
    /\ stream = "hello"

\* the place of the first `: ` of a line at or after i, 0 when there is none
RECURSIVE FirstSeparator(_, _)
FirstSeparator(line, i) ==
    IF i + 1 > Len(line) THEN 0
    ELSE IF SubSeq(line, i, i + 1) = ": " THEN i
    ELSE FirstSeparator(line, i + 1)

\* the name and the value the specification gives a header line: the
\* trimmed text before the first `: ` and the whole trimmed text after it
NameOf(line) == Trim(SubSeq(line, 1, FirstSeparator(line, 1) - 1))

ValueOf(line) == Trim(SubSeq(line, FirstSeparator(line, 1) + 2, Len(line)))

\* C16: parse_header splits a line that is not blank at its first `: `:
\* without one it fails with MalformedRequest; with one, and unless the
\* call fails, it stores under the trimmed text before it the whole trimmed
\* text after it, further `: ` included.
C16_AsStated ==
    (call.op = "parse_header" /\ Len(Trim(call.line)) > 0)
    => IF FirstSeparator(call.line, 1) = 0
       THEN returned.val.result = Err(MalformedRequest)
       ELSE returned.val.result.ok
            => GetValue(returned.val.self.headers, NameOf(call.line))
               = Some(ValueOf(call.line))

\* the spellings of Content-Length among the modelled header lines
ContentLengthSpellings == {"Content-Length", "content-length", "CONTENT-LENGTH"}

\* the non-negative integer a header value writes, if it writes one
DeclaredLength(value) ==
    CASE value = "2" -> Some(2)
      [] value = "5" -> Some(5)
      [] value = "10" -> Some(10)
      [] OTHER -> None

\* C17: a header line whose name is Content-Length in any letter case sets
\* the recorded body length to its value when the value is a non-negative
\* integer, replacing a length recorded by an earlier header, and fails
\* with MalformedRequest when the value is empty, negative or not a number;
\* every other header line leaves the recorded length as it was.
C17_ContentLengthAnyCaseLastWins ==
    (call.op = "parse_header" /\ Len(Trim(call.line)) > 0
     /\ FirstSeparator(call.line, 1) # 0)
    => IF NameOf(call.line) \in ContentLengthSpellings
       THEN IF IsSome(DeclaredLength(ValueOf(call.line)))
            THEN /\ returned.val.result.ok
                 /\ returned.val.self.content_length = DeclaredLength(ValueOf(call.line))
            ELSE /\ returned.val.result = Err(MalformedRequest)
                 /\ returned.val.self = call.self
       ELSE returned.val.self.content_length = call.self.content_length

\* C17 happens: content-length: 2 after Content-Length: 5 records 2
C17_Witness ==
    /\ call.op = "parse_header"
    /\ call.self.content_length = Some(5)
    /\ call.line = "content-length: 2\r\n"
    /\ returned.val.self.content_length = Some(2)

\* the calls handle_request made to the file system, by name
CallsMade == {calls[i].op : i \in 1..Len(calls)}

\* C18: handle_request reads a file only for GET on /files/<name> and
\* writes one only for POST on /files/<name>; for a method the matched
\* route does not allow it returns MethodNotAllowed and has made no call to
\* the file system.
C18_NoFileActionForDisallowedMethod ==
    (IsSome(outcome) /\ request.val.ok)
    => LET req == request.val.val
           allowed == RouteAllowList(req.path)
       IN  /\ CallsMade \cap {"open", "read"} # {}
              => req.method = HttpMethod("GET") /\ StartsWith(req.path, "/files/")
           /\ CallsMade \cap {"create", "write"} # {}
              => req.method = HttpMethod("POST") /\ StartsWith(req.path, "/files/")
           /\ (\A i \in 1..Len(allowed) : allowed[i] # req.method)
              => /\ CallsMade = {}
                 /\ Len(allowed) > 0 => outcome.val = Err(MethodNotAllowed(allowed))

\* C18 happens: DELETE /files/f returns MethodNotAllowed without a call
C18_Witness ==
    /\ pc = "respond"
    /\ request.val.ok
    /\ request.val.val.path = "/files/f"
    /\ request.val.val.method = HttpMethod("DELETE")
    /\ outcome.val = Err(MethodNotAllowed(<<HttpMethod("GET"), HttpMethod("POST")>>))
    /\ CallsMade = {}

\* what Parser::parse returns for a stream that holds buf and then ends
RECURSIVE ParseOf(_, _)
ParseOf(self, buf) ==
    IF self.state = "Done" THEN Ok(self)
    ELSE IF self.state = "Body"
    THEN LET step == ParseBody(self, buf)
         IN  IF step.result.ok THEN Ok(step.self) ELSE Err(step.result.err)
    ELSE LET read == ReadLine(buf)
         IN  IF Len(read.line) = 0 THEN Ok(self)
             ELSE LET step == IF self.state = "Start"
                              THEN ParseStartLine(self, read.line)
                              ELSE ParseHeader(self, read.line)
                  IN  IF step.result.ok THEN ParseOf(step.self, read.rest)
                      ELSE Err(step.result.err)

\* the number of bytes after the blank line that belong to the request
BodyBytes == IF IsSome(parser.content_length) THEN parser.content_length.val ELSE 0

\* the input of the connection without what follows its body
InputUpToBody == [input EXCEPT !.tail = SubSeq(input.tail, 1, BodyBytes), !.open = FALSE]

\* C19: when Parser::parse has returned with the parser Done, the bytes
\* after the blank line and the Content-Length body bytes were not parsed,
\* the request is the one the stream gives without them, its body is the
\* Content-Length bytes only, or absent when no Content-Length was
\* recorded; and nothing more is read from the stream, and the parser and
\* the request stay as they are, until the connection is dropped.
C19_NothingConsumedAfterDone ==
    /\ []((ParseReturned /\ parsed.val.ok /\ parser.state = "Done")
          => /\ stream = SubSeq(input.tail, BodyBytes + 1, Len(input.tail))
             /\ request.val = FromStream(ParseOf(ParserNew, Bytes(InputUpToBody)))
             /\ request.val.ok
             /\ request.val.val.body
                = IF IsSome(parser.content_length)
                  THEN Some(SubSeq(input.tail, 1, BodyBytes)) ELSE None)
    /\ [][(ParseReturned /\ pc' # "accept")
          => (stream' = stream /\ parser' = parser /\ request' = request)]_vars

\* C19 happens: a header-like line after the blank line stays unread
C19_Witness ==
    /\ pc = "handle"
    /\ input.tail = "X: y\r\n"
    /\ ~IsSome(parser.content_length)
    /\ parser.state = "Done"
    /\ stream = "X: y\r\n"
    /\ request.val.ok
    /\ "X" \notin DOMAIN request.val.val.headers

\* the place of the last write of a name in a list of writes, 0 when the
\* name was never written
RECURSIVE LastWrite(_, _, _)
LastWrite(written, name, i) ==
    IF i = 0 THEN 0
    ELSE IF written[i].name = name THEN i
    ELSE LastWrite(written, name, i - 1)

\* C20: after new, any add_header calls and from_vector, the collection
\* holds one header for each exact name written and no other, the header
\* of a name being the last one written with exactly that name, so that
\* names that differ in letter case have entries of their own; get_value
\* returns the value of that header, and None for a name never written.
C20_LastWritePerExactName ==
    /\ call.op \in CollectionOps
       => LET headers == returned.val
              written == call.written
          IN  /\ DOMAIN headers = {written[i].name : i \in 1..Len(written)}
              /\ \A name \in DOMAIN headers :
                    headers[name] = written[LastWrite(written, name, Len(written))]
    /\ call.op = "HttpHeaderCollection::get_value"
       => LET last == LastWrite(call.written, call.key, Len(call.written))
          IN  returned.val = IF last = 0 THEN None ELSE Some(call.written[last].value)

\* C20 happens: Accept written twice and accept once, Accept looked up
C20_Witness ==
    /\ call.op = "HttpHeaderCollection::get_value"
    /\ call.written
       = <<HttpHeader("Accept", "a"), HttpHeader("accept", "a"), HttpHeader("Accept", "b")>>
    /\ call.key = "Accept"
    /\ returned.val = Some("b")
    /\ GetValue(call.self, "accept") = Some("a")
    /\ GetValue(call.self, "ACCEPT") = None

\* the kinds of the closed taxonomy of HttpError
HttpErrorKinds ==
    {"NotFound", "MethodNotAllowed", "BadRequest", "InternalError", "Unauthorized",
     "Forbidden"}

\* C21: for every parsed request handle_request returns an HttpResponse or
\* an HttpError of the taxonomy, and no call of it ends the process by a
\* panic, a POST on /files/<name> without a body included.
C21_AsStated ==
    (IsSome(outcome) /\ request.val.ok)
    => /\ ~IsPanic(outcome.val)
       /\ outcome.val.ok \/ outcome.val.err.kind \in HttpErrorKinds

\* C22: a parser in state Done has its method, path and version set, so
\* that get_request builds a request from it, and has a body exactly when
\* a Content-Length was recorded, the body then having as many bytes as
\* recorded, none for Content-Length 0; and Parser::parse never returns Ok
\* with the parser in state Body.
C22_DoneParserIsComplete ==
    /\ parser.state = "Done"
       => /\ IsSome(parser.method) /\ IsSome(parser.path) /\ IsSome(parser.version)
          /\ GetRequest(parser).ok
          /\ IsSome(parser.body) <=> IsSome(parser.content_length)
          /\ IsSome(parser.body) => Len(parser.body.val) = parser.content_length.val
    /\ (ParseReturned /\ parsed.val.ok)
       => /\ parsed.val.val = parser
          /\ parser.state # "Body"

\* C22 happens: Content-Length 0 has given a Done parser with an empty body
C22_Witness ==
    /\ ParseReturned
    /\ parser.state = "Done"
    /\ parser.content_length = Some(0)
    /\ parser.body = Some("")
    /\ input.tail = "he"

=============================================================================
